---- MODULE Spec2Model ----
(***************************************************************************)
(* State-machine model of Aerospace_Thermal_Fin_Analyzer.py: the parameter *)
(* object (FinParams), the analytical solver (solve_fin), the worker       *)
(* thread (SolverThread) and the handlers of the main window (FinUI).      *)
(*                                                                         *)
(* Numbers.  The program computes with floats.  The model keeps every      *)
(* parameter as an integer: k, h, Tb, Tinf in the program's units and the  *)
(* three lengths t, b, L in millimetres, so that every default and preset  *)
(* value is an integer.  Sums, products and comparisons with 0 are         *)
(* computed; sqrt, cosh, tanh, the divisions and linspace are kept as      *)
(* terms over the values they were applied to.                             *)
(*                                                                         *)
(* Threads.  The handlers of FinUI run one at a time on the foreground     *)
(* thread (the Qt event loop); each is one action.  A SolverThread runs    *)
(* solve_fin line by line, one action per source line, then emits and      *)
(* returns; the foreground may run a handler between any two of these      *)
(* steps.  The thread reads the FinParams object it was given, which is    *)
(* the object FinUI.params names (line 407 passes the reference, line 67   *)
(* stores it).  A signal emitted by the worker is posted to the foreground *)
(* event queue and handled by a later foreground step.                     *)
(*                                                                         *)
(* Dialogs.  While a modal dialog is open the buttons of the main window   *)
(* are blocked; only the worker and the handling of its signals go on, and *)
(* these never write the parameters.  They may store a result, which the   *)
(* exports read after their file dialog has closed; the exports' earlier   *)
(* test "is there a result" cannot turn false again.  A handler that opens *)
(* a dialog is therefore one action, taken when the dialog closes.         *)
(*                                                                         *)
(* Direct calls.  solve_fin is a module-level function with a sample count *)
(* npts that the window never passes.  A second specification, SpecSolve,  *)
(* makes one call of it on parameters and a sample count drawn from small  *)
(* sets; there the elements of x and T are compared as floats, with the    *)
(* overflow of np.cosh to inf taken into account.                          *)
(***************************************************************************)
EXTENDS Integers, Sequences, FiniteSets, TLC

VARIABLES
    params,     \* FinUI.params: the one FinParams object
    threads,    \* the SolverThread objects created so far, in order
    _worker,    \* FinUI._worker: index into threads, 0 for None
    queue,      \* done/failed signals posted to the foreground event loop
    _last,      \* FinUI._last: None or (x, T, metrics, params dict)
    lastRun,    \* history: the thread whose done signal built _last (0: none)
    canvas,     \* what FinCanvas shows: None (reset_empty) or the plotted (x, T)
    labels,     \* what ResultsBox shows: None (dashes) or (Q, eta, eps, m)
    msg,        \* the last message box shown
    png,        \* the (x, T) plotted in the PNG file last written, None before
    csv,        \* the tuple the CSV file last written was written from (its
                \* rows are csv_rows(csv)), None before
    nClicks,    \* user actions accepted so far: commits, presets, runs
                \* started and files written
    call        \* a call of solve_fin made outside the window: its arguments,
                \* where it stands and what it returned

vars == <<params, threads, _worker, queue, _last, lastRun, canvas, labels,
          msg, png, csv, nClicks, call>>

\* ------------------------------------------------------------------ bounds
\* User actions accepted in one behaviour: dialog commits, presets, runs
\* started and files written.  Clicks that only show a message, and CLEAR,
\* are not counted.
MaxClicks == 3

\* --------------------------------------------------------------- constants
\* Python's None, for the attributes that otherwise hold a tuple.
None == <<>>

\* The default sample count of solve_fin, the one SolverThread.run uses.
npts == 300

Fields == {"k", "h", "t", "b", "L", "Tb", "Tinf"}

\* The order in which ParamDialog.apply assigns the fields.
FieldOrder == <<"k", "h", "t", "b", "L", "Tb", "Tinf">>

\* FinParams.__init__: the defaults.
FinParams == [k |-> 15, h |-> 120, t |-> 3, b |-> 10, L |-> 30,
              Tb |-> 900, Tinf |-> 600]

\* PresetDialog.__init__: the four presets, each a partial mapping.
presets == <<
    [k |-> 15, h |-> 120, t |-> 3, b |-> 10, L |-> 30, Tb |-> 900, Tinf |-> 600],
    [h |-> 300, t |-> 2],
    [t |-> 5, L |-> 50],
    [Tinf |-> 500, Tb |-> 1000] >>

\* What the user types into the parameter dialog: for some fields a new
\* text, the other line edits keep the text they were created with.  The
\* last entry is the dialog accepted as it opened.
Entries == <<
    [t |-> <<"0">>],
    [t |-> <<"-", "3">>, b |-> <<"-", "1", "0">>],
    [h |-> <<"3", "0", "0">>, L |-> <<"a">>],
    <<>> >>

\* ------------------------------------------------------- text <-> number
Digit == <<"0", "1", "2", "3", "4", "5", "6", "7", "8", "9">>

IsDigit(c) == \E d \in 1..10 : Digit[d] = c

DigitVal(c) == (CHOOSE d \in 1..10 : Digit[d] = c) - 1

RECURSIVE Digits(_)
Digits(n) == IF n < 10 THEN <<Digit[n + 1]>>
             ELSE Digits(n \div 10) \o <<Digit[(n % 10) + 1]>>

\* str(val) of mkle: the text a line edit is created with.
str(v) == IF v < 0 THEN <<"-">> \o Digits(-v) ELSE Digits(v)

RECURSIVE Nat10(_)
Nat10(s) == IF s = <<>> THEN 0
            ELSE 10 * Nat10(SubSeq(s, 1, Len(s) - 1)) + DigitVal(s[Len(s)])

\* float(text): the value, or a ValueError when the text is no numeral.
float(s) ==
    LET neg  == s # <<>> /\ s[1] = "-"
        body == IF neg THEN Tail(s) ELSE s
    IN  IF body # <<>> /\ \A i \in 1..Len(body) : IsDigit(body[i])
        THEN [ok |-> TRUE, val |-> (IF neg THEN -1 ELSE 1) * Nat10(body)]
        ELSE [ok |-> FALSE, val |-> 0]

\* ------------------------------------------------------------ solve_fin
\* The fields the validation of solve_fin is about.
Checked == {"k", "h", "t", "b", "L"}

\* The local variables of a solve_fin call are a record that grows line by
\* line; p is the FinParams object as it is when the line runs.
Line45(f, p) == [A_c |-> p.t * p.b]

Line46(f, p) == f @@ [P |-> 2 * (p.t + p.b)]

\* The condition of line 47: TRUE when line 48 raises ValueError.
Line47NoPerimeter(f, p) == f.A_c <= 0 \/ p.k <= 0 \/ p.h <= 0 \/ p.L <= 0

Line47(f, p) == f.A_c <= 0 \/ f.P <= 0 \/ p.k <= 0 \/ p.h <= 0 \/ p.L <= 0

\* Line 49 divides two floats: ZeroDivisionError when p.k * A_c is 0.
Line49Raises(f, p) == p.k * f.A_c = 0

\* m = sqrt(num / den)
Line49(f, p) == f @@ [m |-> [sqrt_num |-> p.h * f.P, sqrt_den |-> p.k * f.A_c]]

Line50(f, p) == f @@ [theta_b |-> p.Tb - p.Tinf]

\* np.linspace raises ValueError for a negative number of samples; for 0 it
\* returns an empty array and for 1 the array [start].
Line51Raises(n) == n < 0

\* One sample too few.
Line51OffByOne(f, p, n) ==
    f @@ [x |-> [start |-> 0, stop |-> p.L, num |-> n - 1]]

Line51(f, p, n) == f @@ [x |-> [start |-> 0, stop |-> p.L, num |-> n]]

\* theta = theta_b * cosh(m*(L - x)) / cosh(m*L), L read from p
Line52(f, p) == f @@ [theta |-> [theta_b |-> f.theta_b, m |-> f.m,
                                  L |-> p.L, x |-> f.x]]

Line53(f, p) == f @@ [T |-> [Tinf |-> p.Tinf, theta |-> f.theta]]

\* Q_f = k * A_c * m * theta_b * tanh(m*L)
Line55(f, p) == f @@ [Q_f |-> [kAc |-> p.k * f.A_c, m |-> f.m,
                                theta_b |-> f.theta_b, L |-> p.L]]

\* eta = tanh(m*L) / (m*L)
Line56(f, p) == f @@ [eta |-> [m |-> f.m, L |-> p.L]]

\* eps = (k*m/h) * tanh(m*L)
Line57(f, p) == f @@ [eps |-> [k |-> p.k, h |-> p.h, m |-> f.m, L |-> p.L]]

\* return x, T, dict(m=m, Q=Q_f, eta=eta, eps=eps, Ac=A_c, P=P)
Line59(f) == <<f.x, f.T, [m |-> f.m, Q |-> f.Q_f, eta |-> f.eta,
                          eps |-> f.eps, Ac |-> f.A_c, P |-> f.P]>>

\* ValueError("Parametry muszą być > 0."), the text word by word.
ValueError48 == [type |-> "ValueError",
                 text |-> <<"Parametry", "musza", "byc", ">", "0.">>,
                 line |-> "48"]

ZeroDivisionError49 == [type |-> "ZeroDivisionError",
                        text |-> <<"float", "division", "by", "zero">>,
                        line |-> "49"]

\* The ValueError np.linspace raises at line 51.
ValueError51(n) ==
    [type |-> "ValueError",
     text |-> <<"Number", "of", "samples,">> \o str(n)
                  \o <<"must", "be", "non-negative.">>,
     line |-> "51"]

\* solve_fin on parameters that do not change while it runs.
solve_fin(p, n) ==
    LET f46 == Line46(Line45(<<>>, p), p)
    IN  IF Line47(f46, p) THEN [raised |-> TRUE, exc |-> ValueError48]
        ELSE IF Line49Raises(f46, p)
        THEN [raised |-> TRUE, exc |-> ZeroDivisionError49]
        ELSE IF Line51Raises(n)
        THEN [raised |-> TRUE, exc |-> ValueError51(n)]
        ELSE [raised |-> FALSE,
              value |-> Line59(Line57(Line56(Line55(Line53(Line52(
                            Line51(Line50(Line49(f46, p), p), p, n),
                            p), p), p), p), p))]

\* traceback.format_exc() in SolverThread.run, as a sequence of words; the
\* frames are run (line 70) and solve_fin (the raising line).
format_exc(e) ==
    <<"Traceback", "(most", "recent", "call", "last):",
      "line", "70,", "in", "run",
      "x,", "T,", "M", "=", "solve_fin(self.params)",
      "line", e.line, "in", "solve_fin",
      e.type>> \o e.text

\* --------------------------------------------------------- SolverThread
NoExc == [type |-> "", text |-> <<>>, line |-> ""]

\* SolverThread.__init__ followed by start().  pc is the line the thread
\* runs next.  self.params is the caller's object, so the thread reads the
\* variable params; atSubmit (the values at construction), clean (no write
\* to the object since), raised, nDone and nFailed are history fields.
SolverThread(p) ==
    [pc |-> "L70", f |-> <<>>, exc |-> NoExc,
     atSubmit |-> p, clean |-> TRUE, raised |-> FALSE,
     nDone |-> 0, nFailed |-> 0]

\* QThread.isRunning(): from start() until run() has returned.
isRunning(th) == th.pc # "finished"

Step(i, pc, f) == threads' = [threads EXCEPT ![i].pc = pc, ![i].f = f]

Raise(i, e) ==
    threads' = [threads EXCEPT ![i].pc = "L72", ![i].f = <<>>, ![i].exc = e,
                               ![i].raised = TRUE]

\* What a step inside solve_fin leaves alone.
NotThreads == <<params, _worker, queue, _last, lastRun, canvas, labels, msg,
                png, csv, nClicks, call>>

\* line 70: the call solve_fin(self.params)
run_call(i) ==
    /\ threads[i].pc = "L70"
    /\ Step(i, "L45", <<>>)
    /\ UNCHANGED NotThreads

solve_45(i) ==
    /\ threads[i].pc = "L45"
    /\ Step(i, "L46", Line45(threads[i].f, params))
    /\ UNCHANGED NotThreads

solve_46(i) ==
    /\ threads[i].pc = "L46"
    /\ Step(i, "L47", Line46(threads[i].f, params))
    /\ UNCHANGED NotThreads

\* lines 47-48
solve_47(i) ==
    /\ threads[i].pc = "L47"
    /\ IF Line47(threads[i].f, params)
       THEN Raise(i, ValueError48)
       ELSE Step(i, "L49", threads[i].f)
    /\ UNCHANGED NotThreads

solve_49(i) ==
    /\ threads[i].pc = "L49"
    /\ IF Line49Raises(threads[i].f, params)
       THEN Raise(i, ZeroDivisionError49)
       ELSE Step(i, "L50", Line49(threads[i].f, params))
    /\ UNCHANGED NotThreads

\* Line 50 written as p.Tb -= p.Tinf: the solver stores theta_b in the object.
solve_50_writing(i) ==
    /\ threads[i].pc = "L50"
    /\ Step(i, "L51", Line50(threads[i].f, params))
    /\ params' = [params EXCEPT !.Tb = params.Tb - params.Tinf]
    /\ UNCHANGED <<_worker, queue, _last, lastRun, canvas, labels, msg, png,
                   csv, nClicks, call>>

solve_50(i) ==
    /\ threads[i].pc = "L50"
    /\ Step(i, "L51", Line50(threads[i].f, params))
    /\ UNCHANGED NotThreads

solve_51(i) ==
    /\ threads[i].pc = "L51"
    /\ IF Line51Raises(npts)
       THEN Raise(i, ValueError51(npts))
       ELSE Step(i, "L52", Line51(threads[i].f, params, npts))
    /\ UNCHANGED NotThreads

solve_52(i) ==
    /\ threads[i].pc = "L52"
    /\ Step(i, "L53", Line52(threads[i].f, params))
    /\ UNCHANGED NotThreads

solve_53(i) ==
    /\ threads[i].pc = "L53"
    /\ Step(i, "L55", Line53(threads[i].f, params))
    /\ UNCHANGED NotThreads

solve_55(i) ==
    /\ threads[i].pc = "L55"
    /\ Step(i, "L56", Line55(threads[i].f, params))
    /\ UNCHANGED NotThreads

solve_56(i) ==
    /\ threads[i].pc = "L56"
    /\ Step(i, "L57", Line56(threads[i].f, params))
    /\ UNCHANGED NotThreads

solve_57(i) ==
    /\ threads[i].pc = "L57"
    /\ Step(i, "L59", Line57(threads[i].f, params))
    /\ UNCHANGED NotThreads

\* What line 71 posts: the done signal with the tuple solve_fin returned.
EmitDone(q, i, payload) ==
    Append(q, [kind |-> "done", payload |-> payload, err |-> <<>>, sender |-> i])

\* The except clause left out: the exception leaves run() and nothing is posted.
EmitFailedUncaught(q, i, e) == q

\* What line 73 posts: the failed signal with the formatted traceback.
EmitFailed(q, i, e) ==
    Append(q, [kind |-> "failed", payload |-> <<>>, err |-> format_exc(e),
               sender |-> i])

\* line 59 returns to line 70, line 71 emits done
run_done(i) ==
    /\ threads[i].pc = "L59"
    /\ queue' = EmitDone(queue, i, Line59(threads[i].f))
    /\ threads' = [threads EXCEPT ![i].pc = "return", ![i].f = <<>>,
                       ![i].nDone = @ + (Len(queue') - Len(queue))]
    /\ UNCHANGED <<params, _worker, _last, lastRun, canvas, labels, msg, png,
                   csv, nClicks, call>>

\* lines 72-73: except Exception, emit failed
run_except(i) ==
    /\ threads[i].pc = "L72"
    /\ queue' = EmitFailed(queue, i, threads[i].exc)
    /\ threads' = [threads EXCEPT ![i].pc = "return", ![i].exc = NoExc,
                       ![i].nFailed = @ + (Len(queue') - Len(queue))]
    /\ UNCHANGED <<params, _worker, _last, lastRun, canvas, labels, msg, png,
                   csv, nClicks, call>>

\* run() returns and the thread finishes: isRunning() is False from here on.
run_return(i) ==
    /\ threads[i].pc = "return"
    /\ Step(i, "finished", <<>>)
    /\ UNCHANGED NotThreads

\* ---------------------------------------------------------- ParamDialog
Min5(p) ==
    CHOOSE v \in {p[g] : g \in Checked} : \A g \in Checked : v <= p[g]

\* Lines 158-161: the assignments in order; the first float() that raises
\* ends them, and what was assigned before stays assigned.
RECURSIVE assign(_, _, _)
assign(p, texts, i) ==
    IF i > Len(FieldOrder) THEN [p |-> p, e |-> <<>>]
    ELSE LET g == FieldOrder[i]
             r == float(texts[g])
         IN  IF r.ok THEN assign([p EXCEPT ![g] = r.val], texts, i + 1)
             ELSE [p |-> p,
                   e |-> <<"could", "not", "convert", "string", "to", "float">>]

\* ParamDialog.apply on the object p: the object afterwards, the value
\* returned and the exception text shown.
apply(p, texts) ==
    LET a == assign(p, texts, 1)
    IN  IF a.e # <<>> THEN [p |-> a.p, ok |-> FALSE, e |-> a.e]
        ELSE IF Min5(a.p) <= 0
        THEN [p |-> a.p, ok |-> FALSE,
              e |-> <<"Wszystkie", "wartosci", "musza", "byc", ">", "0.">>]
        ELSE [p |-> a.p, ok |-> TRUE, e |-> <<>>]

\* ------------------------------------------------------------------ FinUI
MessageBox(title, text) == [title |-> title, text |-> text]

\* A write to the FinParams object, seen by every thread that still runs.
Written(p2) ==
    [i \in DOMAIN threads |->
        IF threads[i].pc # "finished" /\ p2 # params
        THEN [threads[i] EXCEPT !.clean = FALSE] ELSE threads[i]]

\* open_params with the dialog accepted (a cancelled dialog changes
\* nothing): the line edits hold str() of the current values except where
\* the user typed Entries[n].
open_params(n) ==
    /\ nClicks < MaxClicks
    /\ LET texts == [g \in Fields |->
                       IF g \in DOMAIN Entries[n] THEN Entries[n][g]
                       ELSE str(params[g])]
           r == apply(params, texts)
       IN  /\ params' = r.p
           /\ threads' = Written(r.p)
           /\ msg' = IF r.ok THEN msg
                     ELSE MessageBox("Input error", <<"Check", "inputs.">> \o r.e)
    /\ nClicks' = nClicks + 1
    /\ UNCHANGED <<_worker, queue, _last, lastRun, canvas, labels, png, csv,
                   call>>

\* A preset applied as a full replacement: the fields it does not name go
\* back to their defaults.
apply_cb_replace(p, changes) ==
    [g \in Fields |-> IF g \in DOMAIN changes THEN changes[g] ELSE FinParams[g]]

\* apply_cb of open_presets: setattr for each item of the mapping.
apply_cb(p, changes) ==
    [g \in Fields |-> IF g \in DOMAIN changes THEN changes[g] ELSE p[g]]

\* open_presets with preset n clicked.
open_presets(n) ==
    /\ nClicks < MaxClicks
    /\ params' = apply_cb(params, presets[n])
    /\ threads' = Written(params')
    /\ nClicks' = nClicks + 1
    /\ UNCHANGED <<_worker, queue, _last, lastRun, canvas, labels, msg, png, csv,
                   call>>

on_clear ==
    /\ canvas' = None
    /\ labels' = None
    /\ UNCHANGED <<params, threads, _worker, queue, _last, lastRun, msg, png,
                   csv, nClicks, call>>

\* The guard dropped: every click starts a thread.
BusyNever == FALSE

\* The guard without isRunning(): busy as soon as a worker exists.
BusyOnceStarted == _worker # 0

\* The condition of line 404 (hasattr holds since __init__).
Busy == _worker # 0 /\ isRunning(threads[_worker])

\* The return of line 406 left out: after the message a thread is started
\* all the same.
on_run_fallthrough ==
    /\ nClicks < MaxClicks
    /\ msg' = IF Busy
              THEN MessageBox("Fin Designer", <<"Solver", "juz", "pracuje.">>)
              ELSE msg
    /\ threads' = Append(threads, SolverThread(params))
    /\ _worker' = Len(threads) + 1
    /\ nClicks' = nClicks + 1
    /\ UNCHANGED <<params, queue, _last, lastRun, canvas, labels, png, csv,
                   call>>

on_run ==
    IF Busy
    THEN /\ msg' = MessageBox("Fin Designer", <<"Solver", "juz", "pracuje.">>)
         /\ UNCHANGED <<params, threads, _worker, queue, _last, lastRun,
                        canvas, labels, png, csv, nClicks, call>>
    ELSE /\ nClicks < MaxClicks
         /\ threads' = Append(threads, SolverThread(params))
         /\ _worker' = Len(threads) + 1
         /\ nClicks' = nClicks + 1
         /\ UNCHANGED <<params, queue, _last, lastRun, canvas, labels, msg,
                        png, csv, call>>

\* A handler that keeps the metrics of the snapshot it replaces.
on_done_torn(payload, sender) ==
    /\ _last' = <<payload[1], payload[2],
                  IF _last = None THEN payload[3] ELSE _last[3], params>>
    /\ lastRun' = sender
    /\ canvas' = <<payload[1], payload[2]>>
    /\ labels' = <<payload[3].Q, payload[3].eta, payload[3].eps, payload[3].m>>
    /\ UNCHANGED <<params, threads, _worker, msg, png, csv, nClicks, call>>

\* on_done(payload); the dict of line 414 is read from self.params now.
on_done(payload, sender) ==
    /\ _last' = <<payload[1], payload[2], payload[3], params>>
    /\ lastRun' = sender
    /\ canvas' = <<payload[1], payload[2]>>
    /\ labels' = <<payload[3].Q, payload[3].eta, payload[3].eps, payload[3].m>>
    /\ UNCHANGED <<params, threads, _worker, msg, png, csv, nClicks, call>>

\* A handler that also throws the stored result away.
on_failed_discarding(err) ==
    /\ msg' = MessageBox("Solver error", err)
    /\ _last' = None
    /\ UNCHANGED <<params, threads, _worker, lastRun, canvas, labels, png,
                   csv, nClicks, call>>

on_failed(err) ==
    /\ msg' = MessageBox("Solver error", err)
    /\ UNCHANGED <<params, threads, _worker, _last, lastRun, canvas, labels,
                   png, csv, nClicks, call>>

\* The event loop hands the oldest posted signal to the slot connected to it
\* (lines 408-409).
deliver_done ==
    /\ queue # <<>>
    /\ Head(queue).kind = "done"
    /\ on_done(Head(queue).payload, Head(queue).sender)
    /\ queue' = Tail(queue)

deliver_failed ==
    /\ queue # <<>>
    /\ Head(queue).kind = "failed"
    /\ on_failed(Head(queue).err)
    /\ queue' = Tail(queue)

NoResults == MessageBox("Export", <<"Brak", "wynikow", "do", "eksportu.">>)

\* Element i (from 1) of the array np.linspace(start, stop, num), as the
\* fraction num / den; an array of one element holds start.
linspace_at(x, i) ==
    IF x.num = 1 THEN [num |-> x.start, den |-> 1]
    ELSE [num |-> x.start * (x.num - 1) + (i - 1) * (x.stop - x.start),
          den |-> x.num - 1]

\* Element i of the array T = Tinf + theta.
T_at(T, i) ==
    [Tinf |-> T.Tinf, theta_b |-> T.theta.theta_b, m |-> T.theta.m,
     L |-> T.theta.L, x |-> linspace_at(T.theta.x, i)]

\* zip(x, T)
zip(x, T) == [i \in 1..x.num |-> <<linspace_at(x, i), T_at(T, i)>>]

\* len() of an array: of x = np.linspace(start, stop, num), or of T, which
\* lines 52-53 compute element by element from x.
len(a) == IF "num" \in DOMAIN a THEN a.num ELSE a.theta.x.num

\* ------------------------------------------- float values of lines 52-53
Sign(v) == IF v > 0 THEN 1 ELSE IF v < 0 THEN -1 ELSE 0

\* a / c > d / b for naturals a, d and positive c, b, by the steps of
\* Euclid's algorithm, so that no product is formed.
RECURSIVE FracGT(_, _, _, _)
FracGT(a, c, d, b) ==
    IF a \div c # d \div b THEN a \div c > d \div b
    ELSE IF a % c = 0 THEN FALSE
    ELSE IF d % b = 0 THEN TRUE
    ELSE FracGT(b, d % b, c, a % c)

\* np.cosh(z) is inf when z exceeds 710.4758...: z * z > 504775.864.  In the
\* units of the model (h*P / (k*A_c) per mm, lengths in mm) z * z is
\* m2 * len * len / 1000, which gives the number below.
CoshMax2 == 504775864

\* np.cosh(m * (u / w)) overflows to inf; m is the term of line 49, u / w a
\* length in mm.
cosh_overflows(m, u, w) ==
    u # 0 /\ FracGT(m.sqrt_num, m.sqrt_den * w * w, CoshMax2, u * u)

\* L - x[i] as the fraction u / w.
L_minus_x(T, i) ==
    LET xi == linspace_at(T.theta.x, i)
    IN  [u |-> T.theta.L * xi.den - xi.num, w |-> xi.den]

\* What kind of float T[i] is.  theta_b * cosh(..) is inf (nan for
\* theta_b = 0) when the cosh overflows; inf / inf is nan, a finite number
\* over inf is 0.
T_class(T, i) ==
    LET d       == L_minus_x(T, i)
        num_inf == cosh_overflows(T.theta.m, d.u, d.w)
        den_inf == cosh_overflows(T.theta.m, T.theta.L, 1)
    IN  IF num_inf /\ (T.theta.theta_b = 0 \/ den_inf) THEN "nan"
        ELSE IF num_inf
        THEN (IF T.theta.theta_b > 0 THEN "+inf" ELSE "-inf")
        ELSE "finite"

\* The order of the finite elements of one array T: cosh grows with the
\* size of its argument, so theta grows with (L - x[i])^2 for theta_b > 0
\* and falls with it for theta_b < 0; over an overflowed cosh(m*L) every
\* finite element is Tinf.
T_key(T, i) ==
    LET d == L_minus_x(T, i)
    IN  IF cosh_overflows(T.theta.m, T.theta.L, 1) THEN 0
        ELSE Sign(T.theta.theta_b) * d.u * d.u

\* T[i] >= T[j] as floats: False whenever one of them is nan.
T_ge(T, i, j) ==
    LET ci == T_class(T, i)
        cj == T_class(T, j)
    IN  IF ci = "nan" \/ cj = "nan" THEN FALSE
        ELSE IF ci = "+inf" \/ cj = "-inf" THEN TRUE
        ELSE IF ci = "-inf" \/ cj = "+inf" THEN FALSE
        ELSE T_key(T, i) >= T_key(T, j)

\* on_export_png with a path chosen: the figure plots x against T.
on_export_png ==
    /\ IF _last = None
       THEN msg' = NoResults /\ UNCHANGED <<png, nClicks>>
       ELSE /\ nClicks < MaxClicks
            /\ png' = <<_last[1], _last[2]>>
            /\ nClicks' = nClicks + 1
            /\ msg' = msg
    /\ UNCHANGED <<params, threads, _worker, queue, _last, lastRun, canvas,
                   labels, csv, call>>

\* The loop written as zip(T, x): the two columns change places.
csv_rows_swapped(last) ==
    << <<"# params", last[4]>>,
       <<"# m [1/m]", last[3].m>>,
       <<"# Q [W]", last[3].Q>>,
       <<"# eta [-]", last[3].eta>>,
       <<"# eps [-]", last[3].eps>>,
       <<"x [m]", "T [K]">> >>
    \o [i \in 1..len(last[1]) |->
           <<T_at(last[2], i), linspace_at(last[1], i)>>]

\* The rows on_export_csv writes.
csv_rows(last) ==
    << <<"# params", last[4]>>,
       <<"# m [1/m]", last[3].m>>,
       <<"# Q [W]", last[3].Q>>,
       <<"# eta [-]", last[3].eta>>,
       <<"# eps [-]", last[3].eps>>,
       <<"x [m]", "T [K]">> >> \o zip(last[1], last[2])

\* An export that takes the arrays of the solver that is about to return,
\* when there is one, instead of the stored tuple.
on_export_csv_inflight ==
    LET ready == {i \in DOMAIN threads : threads[i].pc = "L59"}
    IN  /\ IF _last = None /\ ready = {}
           THEN msg' = NoResults /\ UNCHANGED <<csv, nClicks>>
           ELSE /\ nClicks < MaxClicks
                /\ csv' = IF ready = {} THEN _last
                          ELSE Line59(threads[CHOOSE i \in ready : TRUE].f)
                                   \o <<params>>
                /\ nClicks' = nClicks + 1
                /\ msg' = msg
        /\ UNCHANGED <<params, threads, _worker, queue, _last, lastRun,
                       canvas, labels, png, call>>

\* on_export_csv with a path chosen.
on_export_csv ==
    /\ IF _last = None
       THEN msg' = NoResults /\ UNCHANGED <<csv, nClicks>>
       ELSE /\ nClicks < MaxClicks
            /\ csv' = _last
            /\ nClicks' = nClicks + 1
            /\ msg' = msg
    /\ UNCHANGED <<params, threads, _worker, queue, _last, lastRun, canvas,
                   labels, png, call>>

\* ------------------------------------------------------- specification
\* No call of solve_fin from outside the window.
NoCall == [pc |-> "none", p |-> FinParams, n |-> npts,
           ret |-> [raised |-> FALSE, value |-> <<>>]]

\* FinUI.__init__ (lines 295-301) and the on_clear call that ends initUI.
Init ==
    /\ params = FinParams
    /\ threads = <<>>
    /\ _worker = 0
    /\ queue = <<>>
    /\ _last = None
    /\ lastRun = 0
    /\ canvas = None
    /\ labels = None
    /\ msg = MessageBox("", <<>>)
    /\ png = None
    /\ csv = None
    /\ nClicks = 0
    /\ call = NoCall

Next ==
    \/ \E n \in DOMAIN Entries : open_params(n)
    \/ \E n \in DOMAIN presets : open_presets(n)
    \/ on_clear
    \/ on_run
    \/ deliver_done
    \/ deliver_failed
    \/ on_export_png
    \/ on_export_csv
    \/ \E i \in DOMAIN threads : run_call(i)
    \/ \E i \in DOMAIN threads : solve_45(i)
    \/ \E i \in DOMAIN threads : solve_46(i)
    \/ \E i \in DOMAIN threads : solve_47(i)
    \/ \E i \in DOMAIN threads : solve_49(i)
    \/ \E i \in DOMAIN threads : solve_50(i)
    \/ \E i \in DOMAIN threads : solve_51(i)
    \/ \E i \in DOMAIN threads : solve_52(i)
    \/ \E i \in DOMAIN threads : solve_53(i)
    \/ \E i \in DOMAIN threads : solve_55(i)
    \/ \E i \in DOMAIN threads : solve_56(i)
    \/ \E i \in DOMAIN threads : solve_57(i)
    \/ \E i \in DOMAIN threads : run_done(i)
    \/ \E i \in DOMAIN threads : run_except(i)
    \/ \E i \in DOMAIN threads : run_return(i)

Spec == Init /\ [][Next]_vars

\* A step of thread i: QThread.start() has handed run() to a thread of its
\* own, which the operating system keeps scheduling until run() returns.
Worker(i) ==
    /\ i \in DOMAIN threads
    /\ \/ run_call(i) \/ solve_45(i) \/ solve_46(i) \/ solve_47(i)
       \/ solve_49(i) \/ solve_50(i) \/ solve_51(i) \/ solve_52(i)
       \/ solve_53(i) \/ solve_55(i) \/ solve_56(i) \/ solve_57(i)
       \/ run_done(i) \/ run_except(i) \/ run_return(i)

\* A step of some started thread.
Running == \E i \in DOMAIN threads : Worker(i)

\* The program under fair scheduling: as long as a started thread has not
\* returned from run(), a thread step is eventually taken.  Nothing is
\* required of the user, nor of the event loop.
FairSpec == Spec /\ WF_vars(Running)

\* ---------------------------------------------- solve_fin called directly
\* solve_fin is a module-level function: any caller may pass it a FinParams
\* object and a sample count.  The values a caller may pass:
ParamValues ==
    [k : {0, 15}, h : {-1, 120, 100000}, t : {-3, 0, 3}, b : {-10, 10},
     L : {0, 30, 1000}, Tb : {500, 900}, Tinf : {600}]

\* The sample counts a caller may pass: -1 .. MaxCount.
MaxCount == 4

\* The window as __init__ leaves it, and one call about to be made.
InitSolve ==
    /\ params = FinParams
    /\ threads = <<>>
    /\ _worker = 0
    /\ queue = <<>>
    /\ _last = None
    /\ lastRun = 0
    /\ canvas = None
    /\ labels = None
    /\ msg = MessageBox("", <<>>)
    /\ png = None
    /\ csv = None
    /\ nClicks = 0
    /\ call \in {[NoCall EXCEPT !.pc = "call", !.p = p, !.n = n] :
                    p \in ParamValues, n \in -1..MaxCount}

\* The call is made and returns or raises.
call_solve_fin ==
    /\ call.pc = "call"
    /\ call' = [call EXCEPT !.pc = "returned",
                            !.ret = solve_fin(call.p, call.n)]
    /\ UNCHANGED <<params, threads, _worker, queue, _last, lastRun, canvas,
                   labels, msg, png, csv, nClicks>>

NextSolve == call_solve_fin

SpecSolve == InitSolve /\ [][NextSolve]_vars

\* -------------------------------------------------------------- claims
\* The threads that have been started and have not finished.
Outstanding == {i \in DOMAIN threads : threads[i].pc # "finished"}

\* The fields of the validated five that are <= 0 in p.
Violating(p) == {g \in Checked : p[g] <= 0}

\* The validated fields a failure text names.
FieldsCited(err) == {g \in Checked : \E n \in DOMAIN err : err[n] = g}

\* C1: in every reachable state at most one solver thread is outstanding; a
\* RUN click made while a thread has not finished starts no second thread.
SingleFlight == Cardinality(Outstanding) <= 1

\* A RUN click was refused while the first thread was still running.
SingleFlightWitness ==
    /\ Len(threads) = 1
    /\ Outstanding = {1}
    /\ msg.title = "Fin Designer"

\* C2: what a run delivers is solve_fin of the seven values the parameter
\* object held when the run was submitted, whatever was edited afterwards:
\* a done signal carries exactly that result, a failed signal is sent only
\* when those values are rejected.
InputsAreThoseAtSubmit ==
    \A n \in DOMAIN queue :
        LET r == solve_fin(threads[queue[n].sender].atSubmit, npts)
        IN  IF queue[n].kind = "done"
            THEN ~r.raised /\ queue[n].payload = r.value
            ELSE r.raised

\* C3: the stored snapshot pairs the delivered profile and metrics with the
\* parameter values its run was submitted with, not with the values the
\* parameter object holds when the done signal is handled.
SnapshotParamsAreTheRuns ==
    _last # None => _last[4] = threads[lastRun].atSubmit

\* C4: no new run is dispatched while the signal of an earlier run is
\* posted and not yet handled: every pending signal is from the newest
\* thread.
EventHandledBeforeNextRun ==
    \A n \in DOMAIN queue : queue[n].sender = Len(threads)

\* C5: every run emits exactly one signal: never more than one, exactly one
\* once run() is over, done when solve_fin returned and failed when it
\* raised.
ExactlyOneEvent ==
    \A i \in DOMAIN threads :
        LET th == threads[i]
        IN  /\ th.nDone + th.nFailed <= 1
            /\ th.pc \in {"return", "finished"} => th.nDone + th.nFailed = 1
            /\ th.nDone = 1 => ~th.raised
            /\ th.nFailed = 1 => th.raised

\* A run whose solver raised has finished, having emitted failed only.
ExactlyOneEventWitness ==
    \E i \in DOMAIN threads :
        /\ threads[i].pc = "finished"
        /\ threads[i].raised
        /\ threads[i].nFailed = 1
        /\ threads[i].nDone = 0

\* C6: handling a failed signal leaves the stored snapshot as it was.
FailedKeepsSnapshot ==
    [][(/\ queue # <<>>
        /\ Head(queue).kind = "failed"
        /\ queue' = Tail(queue)) => _last' = _last]_vars

\* The first run completed and was stored, the second failed and its
\* failure has been shown: the snapshot of the first is still there.
FailedKeepsSnapshotWitness ==
    /\ Len(threads) = 2
    /\ lastRun = 1
    /\ _last # None
    /\ threads[2].nFailed = 1
    /\ queue = <<>>
    /\ msg.title = "Solver error"

FailureNamesFields ==
    \A n \in DOMAIN queue :
        (queue[n].kind = "failed" /\ threads[queue[n].sender].clean) =>
            FieldsCited(queue[n].err)
                = Violating(threads[queue[n].sender].atSubmit)

\* C9: from a CLEAR click until the next done signal is handled (the plot
\* is empty exactly then, and before the first result) there is no stored
\* snapshot, so that the exports have nothing to write.
ClearedMeansAbsent == canvas = None => _last = None

\* C10: the snapshot is absent initially, changes only in the step that
\* handles a done signal, and is then the profile and metrics of that
\* signal and the parameter dict built in that step, all four replaced at
\* once.
SnapshotOnlyByCompleted ==
    /\ _last = None
    /\ [][_last' # _last =>
            /\ queue # <<>>
            /\ Head(queue).kind = "done"
            /\ queue' = Tail(queue)
            /\ _last' = <<Head(queue).payload[1], Head(queue).payload[2],
                          Head(queue).payload[3], params>>]_vars

\* The snapshot of a first run has been replaced by that of a second.
SnapshotOnlyByCompletedWitness ==
    /\ lastRun = 2
    /\ _last # None
    /\ threads[1].nDone = 1

\* C11: a PNG or CSV file is written only from the stored snapshot: nothing
\* has been written initially, every step that writes a file finds a
\* snapshot, writes that snapshot's arrays (the whole tuple for CSV) and
\* leaves the snapshot as it is; the solver that is running at that moment
\* contributes nothing.
ExportOnlyFromSnapshot ==
    /\ png = None
    /\ csv = None
    /\ [][/\ png' # png => (_last # None /\ png' = <<_last[1], _last[2]>>)
          /\ csv' # csv => (_last # None /\ csv' = _last)
          /\ (png' # png \/ csv' # csv) => _last' = _last]_vars

\* A CSV file was written from the snapshot of the first run while the
\* second run was inside solve_fin.
ExportOnlyFromSnapshotWitness ==
    /\ Len(threads) = 2
    /\ lastRun = 1
    /\ threads[2].pc = "L59"
    /\ csv # None
    /\ csv = _last

\* C12: a call of solve_fin with a sample count below 2 (1, 0 or negative)
\* raises the ValueError of an invalid parameter and returns no result,
\* whatever the parameters are.
TooFewSamplesFails ==
    (call.pc = "returned" /\ call.n < 2) =>
        (call.ret.raised /\ call.ret.exc.type = "ValueError")

\* C13: for parameters with k, h, t, b, L all positive and n >= 2, solve_fin
\* returns, and the positions and the temperatures have n entries each;
\* the positions start at 0, end at L, increase strictly and are evenly
\* spaced (in exact arithmetic).
PositionsEvenlySpaced ==
    (call.pc = "returned" /\ call.n >= 2 /\ Violating(call.p) = {}) =>
        /\ ~call.ret.raised
        /\ LET x     == call.ret.value[1]
               T     == call.ret.value[2]
               at(i) == linspace_at(x, i)
           IN  /\ len(x) = call.n
               /\ len(T) = call.n
               /\ at(1).num = 0
               /\ at(call.n).num = call.p.L * at(call.n).den
               /\ \A i \in 1..(call.n - 1) :
                      /\ at(i).den = at(i + 1).den
                      /\ at(i).den > 0
                      /\ at(i).num < at(i + 1).num
               /\ \A i \in 1..(call.n - 2) :
                      at(i + 1).num - at(i).num = at(i + 2).num - at(i + 1).num

\* A call with valid parameters and four samples has returned.
PositionsEvenlySpacedWitness ==
    /\ call.pc = "returned"
    /\ call.n = 4
    /\ Violating(call.p) = {}
    /\ ~call.ret.raised
    /\ len(call.ret.value[1]) = 4

\* C14: for parameters with k, h, t, b, L all positive and Tb > Tinf, the
\* temperatures solve_fin returns never increase along the positions:
\* T[i] >= T[i+1] for every i, also when m*L is large.
TemperaturesNonIncreasing ==
    (/\ call.pc = "returned"
     /\ ~call.ret.raised
     /\ Violating(call.p) = {}
     /\ call.p.Tb > call.p.Tinf) =>
        LET T == call.ret.value[2]
        IN  \A i \in 1..(len(T) - 1) : T_ge(T, i, i + 1)

\* The lines of solve_fin a thread can stand at.
SolveLines == {"L45", "L46", "L47", "L49", "L50", "L51", "L52", "L53",
               "L55", "L56", "L57"}

\* C15: solve_fin is pure.  A step of a thread inside solve_fin writes
\* neither the parameter object nor the guard (_worker, the other threads)
\* nor the snapshot nor the posted signals; and the signal a run emits,
\* when nobody wrote its parameters meanwhile, is a function of the
\* parameter values alone, so that two runs on identical values deliver
\* identical positions, temperatures and metrics.
SolveIsPure ==
    [][/\ \A i \in DOMAIN threads :
              (threads[i].pc \in SolveLines /\ threads'[i].pc # threads[i].pc)
              => /\ params' = params
                 /\ _worker' = _worker
                 /\ _last' = _last
                 /\ queue' = queue
                 /\ \A j \in DOMAIN threads \ {i} : threads'[j] = threads[j]
       /\ Len(queue') = Len(queue) + 1 =>
              LET s  == queue'[Len(queue')]
                  th == threads[s.sender]
                  r  == solve_fin(th.atSubmit, npts)
              IN  th.clean =>
                      IF s.kind = "done"
                      THEN ~r.raised /\ s.payload = r.value
                      ELSE r.raised /\ s.err = format_exc(r.exc)]_vars

\* Two runs on the same parameter values, neither disturbed, have both
\* emitted done, and the two signals carry the same result.
SolveIsPureWitness ==
    /\ Len(queue) = 2
    /\ queue[1].kind = "done"
    /\ queue[2].kind = "done"
    /\ queue[1].sender # queue[2].sender
    /\ threads[queue[1].sender].clean
    /\ threads[queue[2].sender].clean
    /\ threads[queue[1].sender].atSubmit = threads[queue[2].sender].atSubmit
    /\ queue[1].payload = queue[2].payload

\* The texts ParamDialog.apply reads when the dialog is accepted with
\* entry n typed in.
Typed(n) ==
    [g \in Fields |->
        IF g \in DOMAIN Entries[n] THEN Entries[n][g] ELSE str(params[g])]

\* C16: a commit of the parameter dialog that is rejected (a text that is
\* no number, or one of k, h, t, b, L not positive) leaves the parameter
\* object with the seven values it had before: no rejected value and no
\* prefix of the entered values is stored.
RejectedCommitKeepsParams ==
    [][\A n \in DOMAIN Entries :
          (open_params(n) /\ ~apply(params, Typed(n)).ok) => params' = params]_vars

\* C17: a RUN click refused because a run is outstanding is a no-op.  The
\* step that shows "Solver juz pracuje." is taken only while a thread is
\* running and changes nothing but the message: not the threads, not
\* _worker, not the parameters, not the snapshot, not the posted signals.
\* The click is not remembered either: a thread is started only in a step
\* that is itself an accepted click, made while no thread is running.
RejectedRunIsNoOp ==
    [][/\ (msg' # msg /\ msg'.title = "Fin Designer") =>
              /\ Busy
              /\ UNCHANGED <<params, threads, _worker, queue, _last, lastRun,
                             canvas, labels, png, csv, nClicks>>
       /\ threads' # threads /\ Len(threads') # Len(threads) =>
              /\ ~Busy
              /\ Len(threads') = Len(threads) + 1
              /\ nClicks' = nClicks + 1]_vars

\* A click was refused during the only run; the run has finished and its
\* result is stored, and no second thread exists.
RejectedRunIsNoOpWitness ==
    /\ msg.title = "Fin Designer"
    /\ Len(threads) = 1
    /\ threads[1].pc = "finished"
    /\ threads[1].nDone = 1
    /\ queue = <<>>
    /\ _last # None

\* C18: under fair scheduling of the worker, whenever the guard of on_run
\* is closed (a run was accepted and has not finished) it opens again: the
\* thread finishes having emitted its one signal, and the next RUN click
\* is accepted; the guard never stays closed for ever.
GuardReturnsToIdle ==
    Busy ~> (/\ _worker # 0
             /\ ~Busy
             /\ threads[_worker].pc = "finished"
             /\ threads[_worker].nDone + threads[_worker].nFailed = 1)

\* A second run was accepted after the first had finished, and has
\* finished as well: the guard is open once more.
GuardReturnsToIdleWitness ==
    /\ Len(threads) = 2
    /\ _worker = 2
    /\ threads[1].pc = "finished"
    /\ threads[2].pc = "finished"
    /\ ~Busy

\* C19: applying a preset sets exactly the fields its mapping names to the
\* mapped values and leaves the other fields as they were; it leaves the
\* snapshot, _worker, the position of every thread and the posted signals
\* alone, and it validates nothing: no message is shown, whatever the
\* resulting values are.
PresetSetsNamedFieldsOnly ==
    [][\A n \in DOMAIN presets :
          open_presets(n) =>
              /\ \A g \in Fields :
                     params'[g] = IF g \in DOMAIN presets[n]
                                  THEN presets[n][g] ELSE params[g]
              /\ _last' = _last
              /\ _worker' = _worker
              /\ Len(threads') = Len(threads)
              /\ \A i \in DOMAIN threads : threads'[i].pc = threads[i].pc
              /\ queue' = queue
              /\ msg' = msg]_vars

\* The preset "Cool ambient + hot base" was applied to parameters whose t
\* is 0 (left by a rejected commit): Tb and Tinf are the preset's, t is
\* still 0 and the other fields are the defaults.
PresetSetsNamedFieldsOnlyWitness ==
    params = [FinParams EXCEPT !.t = 0, !.Tb = 1000, !.Tinf = 500]

\* C20: the CSV file written from a snapshot of N samples has N + 6 rows:
\* "# params", "# m [1/m]", "# Q [W]", "# eta [-]", "# eps [-]" with the
\* snapshot's values, in this order, then the header "x [m]", "T [K]",
\* then one row (x[i], T[i]) per sample in index order; the first and
\* second cells of rows 7 .. N+6, read back in order, are the snapshot's
\* positions and temperatures.
CsvRowsAsSpecified ==
    csv # None =>
        LET rows   == csv_rows(csv)
            N      == len(csv[1])
            read_x == [i \in 1..N |-> rows[6 + i][1]]
            read_T == [i \in 1..N |-> rows[6 + i][2]]
        IN  /\ Len(rows) = N + 6
            /\ rows[1] = <<"# params", csv[4]>>
            /\ rows[2] = <<"# m [1/m]", csv[3].m>>
            /\ rows[3] = <<"# Q [W]", csv[3].Q>>
            /\ rows[4] = <<"# eta [-]", csv[3].eta>>
            /\ rows[5] = <<"# eps [-]", csv[3].eps>>
            /\ rows[6] = <<"x [m]", "T [K]">>
            /\ \A i \in 1..N : Len(rows[6 + i]) = 2
            /\ read_x = [i \in 1..N |-> linspace_at(csv[1], i)]
            /\ read_T = [i \in 1..N |-> T_at(csv[2], i)]

\* A CSV file of 306 rows has been written from the stored snapshot.
CsvRowsAsSpecifiedWitness ==
    /\ csv # None
    /\ csv = _last
    /\ Len(csv_rows(csv)) = npts + 6

====
